---- MODULE Spec2Model ----
(***************************************************************************)
(* Expression trees of the decompiler (src/src/expressions.py).            *)
(*                                                                         *)
(* The heap is the sequence of node objects allocated so far; a node is    *)
(* named by its position in it (object identity), None is the null         *)
(* reference.  Every class of the module is a value of field cls.  The     *)
(* cosmetic name fields and the rendering methods are left out: no method  *)
(* modelled here reads them.                                               *)
(***************************************************************************)
EXTENDS Integers, Sequences, FiniteSets, TLC

VARIABLES heap, last, calls

vars == <<heap, last, calls>>

(***************************************************************************)
(* Bounds of the exploration.                                              *)
(***************************************************************************)
MaxNodes == 4
MaxCalls == 4

None == 0
NoParent == <<>>
NoIndex == -1


(***************************************************************************)
(* The class taxonomy.                                                     *)
(***************************************************************************)
LocClasses == {"regloc_t", "flagloc_t"}
VarClasses == {"var_t", "arg_t"}
LeafClasses == LocClasses \cup {"value_t"} \cup VarClasses

UnaryOperator ==
    [not_t |-> "~", b_not_t |-> "!", deref_t |-> "*", address_t |-> "&",
     neg_t |-> "-", preinc_t |-> "++", predec_t |-> "--", postinc_t |-> "++",
     postdec_t |-> "--", sign_t |-> "<sign>", overflow_t |-> "<overflow>",
     parity_t |-> "<parity>", adjust_t |-> "<adjust>", carry_t |-> "<carry>"]

BinaryOperator ==
    [comma_t |-> ",", assign_t |-> "=", add_t |-> "+", sub_t |-> "-",
     mul_t |-> "*", div_t |-> "/", shl_t |-> "<<", shr_t |-> ">>",
     xor_t |-> "^", and_t |-> "&", or_t |-> "|", b_and_t |-> "&&",
     b_or_t |-> "||", eq_t |-> "==", neq_t |-> "!=", leq_t |-> "<=",
     aeq_t |-> ">=", lower_t |-> "<", above_t |-> ">"]

UnaryClasses == DOMAIN UnaryOperator
BinaryClasses == DOMAIN BinaryOperator
TernaryClasses == {"ternary_if_t"}
CallClasses == {"call_t"}
ExprClasses == CallClasses \cup UnaryClasses \cup BinaryClasses \cup TernaryClasses
Classes == LeafClasses \cup ExprClasses

\* len(operands) handed to expr_t.__init__ by each constructor
Arity(cls) ==
    IF cls \in UnaryClasses THEN 1
    ELSE IF cls \in BinaryClasses \cup CallClasses THEN 2
    ELSE IF cls \in TernaryClasses THEN 3
    ELSE 0

\* isinstance(x, assignable_t)
IsAssignable(cls) == cls \in LocClasses \cup VarClasses \cup {"deref_t"}

\* the operator attribute(s) set by uexpr_t, bexpr_t and texpr_t
Operator(cls) ==
    IF cls \in UnaryClasses THEN UnaryOperator[cls]
    ELSE IF cls \in BinaryClasses THEN BinaryOperator[cls]
    ELSE IF cls \in TernaryClasses THEN "?:"
    ELSE ""

\* classes that define (or inherit) a copy method
HasCopy(cls) == cls \notin TernaryClasses

(***************************************************************************)
(* Node objects.                                                           *)
(***************************************************************************)
Slots(cls) == 0..(Arity(cls) - 1)

NewNode(cls, which, index, value, where) ==
    [cls |-> cls, which |-> which, index |-> index, value |-> value,
     where |-> where, operands |-> [k \in Slots(cls) |-> None],
     parent |-> NoParent, is_def |-> FALSE]

Ids(h) == 1..Len(h)

(***************************************************************************)
(* replaceable_t.parent and expr_t.__setitem__ / assign_t.__setitem__.     *)
(* A call returns the outcome (ok, or the exception raised) and the heap   *)
(* it leaves behind, which for a failed call is the heap as it was when    *)
(* the exception was raised.                                               *)
(***************************************************************************)
Outcome(out, h, ret) == [out |-> out, h |-> h, ret |-> ret]

SetParent(h, n, parent) == [h EXCEPT ![n].parent = parent]

\* faulty variant: the check that the operand has no parent yet is missing
ExprSetItem_NoParentCheck(h, self, key, value) ==
    LET h1 == IF value # None THEN SetParent(h, value, <<self, key>>) ELSE h
    IN  Outcome("ok", [h1 EXCEPT ![self].operands[key] = value], None)

ExprSetItem(h, self, key, value) ==
    IF value # None /\ h[value].parent # NoParent
    THEN Outcome("AssertionError", h, None)
    ELSE LET h1 == IF value # None THEN SetParent(h, value, <<self, key>>) ELSE h
         IN  Outcome("ok", [h1 EXCEPT ![self].operands[key] = value], None)

\* faulty variant: the new target's is_def flag is not set
AssignSetItem_NoFlag(h, self, key, value) ==
    IF key = 0 /\ (value = None \/ ~IsAssignable(h[value].cls))
    THEN Outcome("AssertionError", h, None)
    ELSE ExprSetItem(h, self, key, value)

AssignSetItem(h, self, key, value) ==
    IF key = 0
    THEN IF value = None \/ ~IsAssignable(h[value].cls)
         THEN Outcome("AssertionError", h, None)
         ELSE ExprSetItem([h EXCEPT ![value].is_def = TRUE], self, key, value)
    ELSE ExprSetItem(h, self, key, value)

\* self[key] = value, dispatched on the class of self
SetItem(h, self, key, value) ==
    IF h[self].cls = "assign_t"
    THEN AssignSetItem(h, self, key, value)
    ELSE ExprSetItem(h, self, key, value)

(***************************************************************************)
(* expr_t.__init__: the new object is allocated, then its operands are     *)
(* assigned in slot order; the first failing assignment ends the loop.     *)
(***************************************************************************)
RECURSIVE InitOperands(_, _, _, _)
InitOperands(h, self, ops, i) ==
    IF i >= Len(ops) THEN Outcome("ok", h, self)
    ELSE LET r == SetItem(h, self, i, ops[i + 1])
         IN  IF r.out # "ok" THEN Outcome(r.out, r.h, None)
             ELSE InitOperands(r.h, self, ops, i + 1)

\* a new object whose constructor raised is kept only while an operand's
\* parent link refers to it; otherwise nothing can reach it any more
Referenced(h, self) == \E k \in DOMAIN h[self].operands : h[self].operands[k] # None

ExprInit(h, cls, ops) ==
    LET self == Len(h) + 1
        r == InitOperands(Append(h, NewNode(cls, 0, NoIndex, 0, None)), self, ops, 0)
    IN  IF r.out = "ok" \/ Referenced(r.h, self) THEN r
        ELSE Outcome(r.out, SubSeq(r.h, 1, Len(h)), None)

AssignInit(h, ops) ==
    IF ops[1] = None \/ ~IsAssignable(h[ops[1]].cls)
    THEN Outcome("AssertionError", h, None)
    ELSE LET r == ExprInit(h, "assign_t", ops)
         IN  IF r.out = "ok"
             THEN Outcome("ok", [r.h EXCEPT ![ops[1]].is_def = TRUE], r.ret)
             ELSE r

\* cls(*ops) for a composite class
Construct(h, cls, ops) ==
    IF cls = "assign_t" THEN AssignInit(h, ops) ELSE ExprInit(h, cls, ops)

(***************************************************************************)
(* replaceable_t.replace                                                   *)
(***************************************************************************)
\* faulty variant: no early return for a node without parent, so that the assertion
\* on the parent that follows it raises
Replace_AssertsParent(h, self, new) ==
    IF new = None \/ h[self].parent = NoParent THEN Outcome("AssertionError", h, None)
    ELSE LET owner == h[self].parent[1]
             k == h[self].parent[2]
             old == h[owner].operands[k]
         IN  IF old # self THEN Outcome("AssertionError", h, None)
             ELSE LET r == SetItem(h, owner, k, new)
                  IN  IF r.out # "ok" THEN r
                      ELSE Outcome("ok", SetParent(r.h, old, NoParent), old)

Replace(h, self, new) ==
    IF new = None THEN Outcome("AssertionError", h, None)
    ELSE IF h[self].parent = NoParent THEN Outcome("ok", h, None)
    ELSE LET owner == h[self].parent[1]
             k == h[self].parent[2]
             old == h[owner].operands[k]
         IN  IF old # self THEN Outcome("AssertionError", h, None)
             ELSE LET r == SetItem(h, owner, k, new)
                  IN  IF r.out # "ok" THEN r
                      ELSE Outcome("ok", SetParent(r.h, old, NoParent), old)

(***************************************************************************)
(* Recursion of the interpreter.  copy, __eq__ and iteroperands recurse    *)
(* along operand slots; a chain of nested calls longer than the number of  *)
(* objects has entered a cycle and never returns by itself: the            *)
(* interpreter ends it with RuntimeError (maximum recursion depth).        *)
(***************************************************************************)
Depth(h) == Len(h)

(***************************************************************************)
(* copy: regloc_t.copy, value_t.copy, var_t.copy, arg_t.copy, call_t.copy, *)
(* uexpr_t.copy and the copy of every binary class.  texpr_t and           *)
(* ternary_if_t define none.  The arguments of the constructor call are    *)
(* evaluated left to right; objects allocated by a copy that raised are    *)
(* unreachable, so a failed copy leaves the heap as it found it.           *)
(***************************************************************************)
RECURSIVE CopyRec(_, _, _), CopyOperands(_, _, _, _, _)

\* acc: the copies made so far of operands 0..i-1 of node n
CopyOperands(h, n, i, acc, d) ==
    IF i >= Arity(h[n].cls) THEN [out |-> "ok", h |-> h, rets |-> acc]
    ELSE LET o == h[n].operands[i]
         IN  IF o = None
             THEN IF h[n].cls = "call_t" /\ i = 1
                  THEN CopyOperands(h, n, i + 1, Append(acc, None), d)
                  ELSE [out |-> "AttributeError", h |-> h, rets |-> acc]
             ELSE LET r == CopyRec(h, o, d)
                  IN  IF r.out # "ok" THEN [out |-> r.out, h |-> h, rets |-> acc]
                      ELSE CopyOperands(r.h, n, i + 1, Append(acc, r.ret), d)

CopyRec(h, n, d) ==
    IF d = 0 THEN Outcome("RuntimeError", h, None)
    ELSE LET x == h[n]
         IN  IF x.cls \in LocClasses
             THEN Outcome("ok", Append(h, NewNode(x.cls, x.which, x.index, 0, None)),
                          Len(h) + 1)
             ELSE IF x.cls = "value_t"
             THEN Outcome("ok", Append(h, NewNode("value_t", 0, NoIndex, x.value, None)),
                          Len(h) + 1)
             ELSE IF x.cls \in VarClasses
             THEN LET w == CopyRec(h, x.where, d - 1)
                  IN  IF w.out # "ok" THEN w
                      ELSE Outcome("ok",
                                   Append(w.h, NewNode(x.cls, 0, NoIndex, 0, w.ret)),
                                   Len(w.h) + 1)
             ELSE IF ~HasCopy(x.cls) THEN Outcome("AttributeError", h, None)
             ELSE LET c == CopyOperands(h, n, 0, <<>>, d - 1)
                  IN  IF c.out # "ok" THEN Outcome(c.out, h, None)
                      ELSE Construct(c.h, x.cls, c.rets)

Copy(h, n) ==
    LET r == CopyRec(h, n, Depth(h))
    IN  IF r.out = "ok" THEN r ELSE Outcome(r.out, h, None)

(***************************************************************************)
(* x == y.  regloc_t, value_t, var_t, arg_t, uexpr_t, bexpr_t and texpr_t  *)
(* define __eq__; expr_t and call_t do not, so a call_t compares by        *)
(* identity.  The value is "True", "False" or "RuntimeError".              *)
(***************************************************************************)
Bool(b) == IF b THEN "True" ELSE "False"

RECURSIVE Eq(_, _, _, _), EqOperands(_, _, _, _, _)

\* self.op1 == other.op1 and self.op2 == other.op2 ..., left to right
EqOperands(h, x, y, i, d) ==
    IF i >= Arity(h[x].cls) THEN "True"
    ELSE LET e == Eq(h, h[x].operands[i], h[y].operands[i], d)
         IN  IF e # "True" THEN e ELSE EqOperands(h, x, y, i + 1, d)

Eq(h, x, y, d) ==
    IF x = None \/ y = None THEN Bool(x = y)
    ELSE IF d = 0 THEN "RuntimeError"
    ELSE LET a == h[x]
             b == h[y]
         IN  IF a.cls \in LocClasses
             THEN Bool(b.cls = a.cls /\ a.which = b.which /\ a.index = b.index)
             ELSE IF a.cls = "value_t"
             THEN Bool(b.cls = "value_t" /\ a.value = b.value)
             ELSE IF a.cls \in VarClasses
             THEN IF b.cls # a.cls THEN "False" ELSE Eq(h, a.where, b.where, d - 1)
             ELSE IF a.cls \in CallClasses
             THEN Bool(x = y)
             ELSE IF a.cls \in UnaryClasses
             THEN IF ~(b.cls \in UnaryClasses /\ Operator(a.cls) = Operator(b.cls))
                  THEN "False" ELSE EqOperands(h, x, y, 0, d - 1)
             ELSE IF a.cls \in BinaryClasses
             THEN IF ~(b.cls \in BinaryClasses /\ Operator(a.cls) = Operator(b.cls))
                  THEN "False" ELSE EqOperands(h, x, y, 0, d - 1)
             ELSE IF ~(b.cls \in TernaryClasses /\ Operator(a.cls) = Operator(b.cls))
                  THEN "False" ELSE EqOperands(h, x, y, 0, d - 1)

Equals(h, x, y) == Eq(h, x, y, Depth(h))

(***************************************************************************)
(* iteroperands: the sequence of objects the generator yields, and whether *)
(* it was exhausted (ok) or ended by an exception.                         *)
(***************************************************************************)
RECURSIVE Iter(_, _, _), IterOperands(_, _, _, _, _)

IterOperands(h, n, i, acc, d) ==
    IF i >= Arity(h[n].cls) THEN [out |-> "ok", seq |-> acc]
    ELSE LET o == h[n].operands[i]
         IN  IF o = None THEN IterOperands(h, n, i + 1, acc, d)
             ELSE LET r == Iter(h, o, d)
                  IN  IF r.out # "ok" THEN [out |-> r.out, seq |-> acc \o r.seq]
                      ELSE IterOperands(h, n, i + 1, acc \o r.seq, d)

\* faulty variant: the node is yielded before its operands
Iter_SelfFirst(h, n, d) ==
    IF d = 0 THEN [out |-> "RuntimeError", seq |-> <<>>]
    ELSE IF h[n].cls \in LeafClasses THEN [out |-> "ok", seq |-> <<n>>]
    ELSE IterOperands(h, n, 0, <<n>>, d - 1)

Iter(h, n, d) ==
    IF d = 0 THEN [out |-> "RuntimeError", seq |-> <<>>]
    ELSE IF h[n].cls \in LeafClasses THEN [out |-> "ok", seq |-> <<n>>]
    ELSE LET r == IterOperands(h, n, 0, <<>>, d - 1)
         IN  IF r.out # "ok" THEN r ELSE [out |-> "ok", seq |-> Append(r.seq, n)]

IterOperandsOf(h, n) == Iter(h, n, Depth(h))

(***************************************************************************)
(* add_t.add, add_t.sub, sub_t.add, sub_t.sub: fold the literal other into *)
(* the second operand.  The test on other comes first; the augmented       *)
(* assignment then reads self.op2.value (an object without that attribute, *)
(* or None, raises AttributeError), reads other.value and stores the       *)
(* result.  Python integers do not overflow.                               *)
(***************************************************************************)
FoldClasses == {"add_t", "sub_t"}
FoldNames == {"add", "sub"}

\* faulty variant: sub_t folds with the signs of add_t
FoldSign_SameForSub(cls, name) == IF name = "add" THEN 1 ELSE -1

\* +1 where the method uses +=, -1 where it uses -=
FoldSign(cls, name) ==
    IF cls = "add_t"
    THEN IF name = "add" THEN 1 ELSE -1
    ELSE IF name = "add" THEN -1 ELSE 1

Fold(h, self, name, other) ==
    IF other = None \/ h[other].cls # "value_t"
    THEN Outcome("RuntimeError", h, None)
    ELSE LET op2 == h[self].operands[1]
         IN  IF op2 = None \/ h[op2].cls # "value_t"
             THEN Outcome("AttributeError", h, None)
             ELSE Outcome("ok",
                          [h EXCEPT ![op2].value =
                               h[op2].value + FoldSign(h[self].cls, name) * h[other].value],
                          None)

(***************************************************************************)
(* The state machine: a client that constructs nodes and calls the         *)
(* methods of the module, one call per step.  last records the call just   *)
(* made: its name, how it ended and what it returned.  calls counts the    *)
(* calls made so far.                                                      *)
(***************************************************************************)
Call(op, out, ret, eq, seq) ==
    [op |-> op, out |-> out, ret |-> ret, eq |-> eq, seq |-> seq]

Refs == Ids(heap) \cup {None}
Composites == {n \in Ids(heap) : heap[n].cls \in ExprClasses}
Locs == {n \in Ids(heap) : heap[n].cls \in LocClasses}

Init ==
    /\ heap = <<>>
    /\ last = Call("init", "ok", None, "", <<>>)
    /\ calls = 0

Tick ==
    /\ calls < MaxCalls
    /\ calls' = calls + 1

NewLoc(cls, which, index) ==
    /\ Tick
    /\ Len(heap) < MaxNodes
    /\ heap' = Append(heap, NewNode(cls, which, index, 0, None))
    /\ last' = Call(cls, "ok", Len(heap) + 1, "", <<>>)

NewValue(value) ==
    /\ Tick
    /\ Len(heap) < MaxNodes
    /\ heap' = Append(heap, NewNode("value_t", 0, NoIndex, value, None))
    /\ last' = Call("value_t", "ok", Len(heap) + 1, "", <<>>)

NewVar(cls, where) ==
    /\ Tick
    /\ Len(heap) < MaxNodes
    /\ heap' = Append(heap, NewNode(cls, 0, NoIndex, 0, where))
    /\ last' = Call(cls, "ok", Len(heap) + 1, "", <<>>)

NewExpr(cls, ops) ==
    /\ Tick
    /\ Len(heap) < MaxNodes
    /\ LET r == Construct(heap, cls, ops)
       IN  /\ heap' = r.h
           /\ last' = Call(cls, r.out, r.ret, "", <<>>)

Assign(self, key, value) ==
    /\ Tick
    /\ LET r == SetItem(heap, self, key, value)
       IN  /\ heap' = r.h
           /\ last' = Call("__setitem__", r.out, None, "", <<>>)

DoReplace(self, new) ==
    /\ Tick
    /\ LET r == Replace(heap, self, new)
       IN  /\ heap' = r.h
           /\ last' = Call("replace", r.out, r.ret, "", <<>>)

DoCopy(self) ==
    /\ Tick
    /\ LET r == Copy(heap, self)
       IN  /\ Len(r.h) <= MaxNodes
           /\ heap' = r.h
           /\ last' = Call("copy", r.out, r.ret, "", <<>>)

Compare(x, y) ==
    /\ Tick
    /\ heap' = heap
    /\ last' = Call("__eq__", "ok", None, Equals(heap, x, y), <<>>)

Iterate(self) ==
    /\ Tick
    /\ LET r == IterOperandsOf(heap, self)
       IN  /\ heap' = heap
           /\ last' = Call("iteroperands", r.out, None, "", r.seq)

DoFold(self, name, other) ==
    /\ Tick
    /\ LET r == Fold(heap, self, name, other)
       IN  /\ heap' = r.h
           /\ last' = Call(name, r.out, r.ret, "", <<>>)

(***************************************************************************)
(* Spec: the ownership protocol over one class of each behaviour the       *)
(* protocol distinguishes (an assignable leaf, a literal, the assignable   *)
(* unary, a plain binary, the assignment).                                 *)
(***************************************************************************)
ProtocolExprs == {"deref_t", "add_t", "assign_t"}

Next ==
    \/ NewLoc("regloc_t", 0, NoIndex)
    \/ NewValue(1)
    \/ \E cls \in ProtocolExprs : \E ops \in [1..Arity(cls) -> Refs] : NewExpr(cls, ops)
    \/ \E self \in Composites : \E key \in Slots(heap[self].cls), value \in Refs :
           Assign(self, key, value)
    \/ \E self \in Ids(heap), new \in Refs : DoReplace(self, new)
    \/ \E self \in Ids(heap) : DoCopy(self)
    \/ \E self \in Ids(heap) : Iterate(self)

Spec == Init /\ [][Next]_vars

(***************************************************************************)
(* SpecFull: construction, comparison, copy and traversal over every kind  *)
(* of leaf and over the composite classes that differ in how they compare  *)
(* or copy.                                                                *)
(***************************************************************************)
LocInputs == {<<"regloc_t", 0, NoIndex>>, <<"regloc_t", 1, NoIndex>>,
              <<"regloc_t", 0, 0>>, <<"flagloc_t", 0, NoIndex>>}
FullExprs == {"call_t", "deref_t", "preinc_t", "postinc_t", "assign_t",
              "ternary_if_t"}

NextFull ==
    \/ \E loc \in LocInputs : NewLoc(loc[1], loc[2], loc[3])
    \/ \E value \in {1, 2} : NewValue(value)
    \/ \E cls \in VarClasses, where \in Locs : NewVar(cls, where)
    \/ \E cls \in FullExprs : \E ops \in [1..Arity(cls) -> Refs] : NewExpr(cls, ops)
    \/ \E self \in Composites : \E key \in Slots(heap[self].cls), value \in Refs :
           Assign(self, key, value)
    \/ \E self \in Ids(heap), new \in Refs : DoReplace(self, new)
    \/ \E self \in Ids(heap) : DoCopy(self)
    \/ \E x \in Ids(heap), y \in Ids(heap) : Compare(x, y)
    \/ \E self \in Ids(heap) : Iterate(self)

SpecFull == Init /\ [][NextFull]_vars

(***************************************************************************)
(* SpecFold: construction, slot assignment, replace and the fold helpers   *)
(* over literals, a location and the binary classes that fold or assign.   *)
(***************************************************************************)
FoldValues == {2, 3}
FoldExprs == {"add_t", "sub_t", "assign_t"}
Folders == {n \in Ids(heap) : heap[n].cls \in FoldClasses}

NextFold ==
    \/ NewLoc("regloc_t", 0, NoIndex)
    \/ \E value \in FoldValues : NewValue(value)
    \/ \E cls \in FoldExprs : \E ops \in [1..Arity(cls) -> Refs] : NewExpr(cls, ops)
    \/ \E self \in Composites : \E key \in Slots(heap[self].cls), value \in Refs :
           Assign(self, key, value)
    \/ \E self \in Ids(heap), new \in Refs : DoReplace(self, new)
    \/ \E self \in Folders, name \in FoldNames, other \in Refs : DoFold(self, name, other)

SpecFold == Init /\ [][NextFold]_vars

(***************************************************************************)
(* Vocabulary of the properties.                                           *)
(***************************************************************************)
Owned(h, n) == h[n].parent # NoParent
Owner(h, n) == h[n].parent[1]
Slot(h, n) == h[n].parent[2]
Holds(h, owner, k, n) == k \in DOMAIN h[owner].operands /\ h[owner].operands[k] = n
Places(h) == {p \in Ids(h) \X {0, 1, 2} : p[2] \in DOMAIN h[p[1]].operands}

\* C1: every node whose parent link is (owner, k) is the node held in owner's
\* slot k; a node displaced from a slot by an overwrite carries no link to it.
C1_ParentLinkIsHeld ==
    \A n \in Ids(heap) : Owned(heap, n) => Holds(heap, Owner(heap, n), Slot(heap, n), n)

\* C2: exclusive ownership: no node object is held in more than one operand
\* slot, neither of two owners nor of one.
C2_ExclusiveOwnership ==
    \A p \in Places(heap), q \in Places(heap) :
        (heap[p[1]].operands[p[2]] # None
            /\ heap[p[1]].operands[p[2]] = heap[q[1]].operands[q[2]]) => p = q

\* a replace has moved a node out of a slot and a slot holds a node
C2_Witness ==
    /\ last.op = "replace" /\ last.out = "ok" /\ last.ret # None
    /\ \E p \in Places(heap) : heap[p[1]].operands[p[2]] # None

\* does the slot (owner, k) take a node of this class
Accepts(h, owner, k, new) ==
    (h[owner].cls = "assign_t" /\ k = 0) => IsAssignable(h[new].cls)

ReplacePost(self, new) ==
    LET owner == Owner(heap, self)
        k == Slot(heap, self)
    IN  /\ last'.out = "ok"
        /\ last'.ret = self
        /\ Len(heap') = Len(heap)
        /\ heap'[owner].operands[k] = new
        /\ heap'[new].parent = <<owner, k>>
        /\ heap'[self].parent = NoParent
        /\ \A p \in Places(heap) :
               p # <<owner, k>> => heap'[p[1]].operands[p[2]] = heap[p[1]].operands[p[2]]
        /\ \A n \in Ids(heap) \ {self, new} : heap'[n].parent = heap[n].parent

\* C3: for every node self whose parent link is (owner, k) and every parent-less
\* replacement new (of a class the slot takes), self.replace(new) ends with
\* owner's slot k holding new, new's parent link (owner, k), self's parent link
\* cleared and self returned; every other slot and parent link is unchanged.
C3_ReplaceOwned ==
    [][\A self \in Ids(heap), new \in Ids(heap) :
           (/\ DoReplace(self, new)
            /\ Owned(heap, self)
            /\ ~Owned(heap, new)
            /\ Accepts(heap, Owner(heap, self), Slot(heap, self), new))
           => ReplacePost(self, new)]_vars

RECURSIVE WellFormedTo(_, _, _)
WellFormedTo(h, n, d) ==
    /\ d > 0
    /\ h[n].cls \in VarClasses => WellFormedTo(h, h[n].where, d - 1)
    /\ \A k \in DOMAIN h[n].operands :
           IF h[n].operands[k] = None
           THEN h[n].cls = "call_t" /\ k = 1
           ELSE WellFormedTo(h, h[n].operands[k], d - 1)

WellFormed(h, n) == WellFormedTo(h, n, Len(h))

\* the nodes held in the operand slots of n
Operands(h, n) == {h[n].operands[k] : k \in DOMAIN h[n].operands} \ {None}

RECURSIVE Closure(_, _, _)
Closure(h, S, i) ==
    LET T == S \cup UNION {Operands(h, m) : m \in S}
    IN  IF i = 0 \/ T = S THEN S ELSE Closure(h, T, i - 1)

\* the nodes of the subtree rooted at n
Subtree(h, n) == Closure(h, {n}, Len(h))

\* the objects of the tree rooted at n: its nodes and the locations its
\* variables and arguments refer to
Objects(h, n) ==
    Subtree(h, n) \cup {h[m].where : m \in {v \in Subtree(h, n) : h[v].cls \in VarClasses}}

\* ops with the node x in the places of set at, none elsewhere
OperandsWith(cls, at, x) == [i \in 1..Arity(cls) |-> IF i \in at THEN x ELSE None]

\* C5, rejection: attaching a node that has a parent link is rejected, by the
\* construction of a composite, by slot assignment and as the replacement of
\* an owned node.
AttachRejected(x) ==
    /\ \A cls \in ExprClasses : \A i \in 1..Arity(cls) :
           Construct(heap, cls, OperandsWith(cls, {i}, x)).out = "AssertionError"
    /\ \A p \in Places(heap) : SetItem(heap, p[1], p[2], x).out = "AssertionError"
    /\ \A n \in Ids(heap) : Owned(heap, n) => Replace(heap, n, x).out = "AssertionError"

\* C5, the copy: copy() of that node attaches in each of these positions that
\* takes a node of its class.
CopyAttaches(x) ==
    LET c == Copy(heap, x)
    IN  /\ c.out = "ok"
        /\ \A cls \in ExprClasses : \A i \in 1..Arity(cls) :
               (cls = "assign_t" => (i = 1 /\ IsAssignable(heap[x].cls)))
               => Construct(c.h, cls, OperandsWith(cls, {i}, c.ret)).out = "ok"
        /\ \A p \in Places(heap) :
               Accepts(heap, p[1], p[2], x) => SetItem(c.h, p[1], p[2], c.ret).out = "ok"
        /\ \A n \in Ids(heap) :
               (Owned(heap, n) /\ Accepts(heap, Owner(heap, n), Slot(heap, n), x))
               => Replace(c.h, n, c.ret).out = "ok"

\* C5, the example: for an owned loc, loc.replace(deref_t(loc)) fails and
\* loc.replace(deref_t(loc.copy())) succeeds.
WrapExample(loc) ==
    /\ Construct(heap, "deref_t", <<loc>>).out = "AssertionError"
    /\ LET c == Copy(heap, loc)
           w == Construct(c.h, "deref_t", <<c.ret>>)
       IN  c.out = "ok" /\ w.out = "ok" /\ Replace(w.h, loc, w.ret).out = "ok"

\* C5: attaching a node that already has a parent link is rejected as a
\* precondition violation, whereas attaching copy() of that node in the same
\* position succeeds.
C5_AttachOwnedOrCopy ==
    \A x \in Ids(heap) :
        (Owned(heap, x) /\ WellFormed(heap, x))
        => /\ AttachRejected(x)
           /\ CopyAttaches(x)
           /\ heap[x].cls \in LocClasses => WrapExample(x)

\* C6: copy(x) == x for every node x of every kind, nested trees included:
\* copy returns a node and that node compares equal to the original.
C6_CopyEqualsOriginal ==
    \A x \in Ids(heap) :
        WellFormed(heap, x)
        => LET c == Copy(heap, x)
           IN  c.out = "ok" /\ c.ret # None /\ Equals(c.h, c.ret, x) = "True"

\* C7: copy(x) returns a root with no parent link whose tree consists of newly
\* created objects only, and leaves every object of the heap as it was.
C7_CopyIndependent ==
    \A x \in Ids(heap) :
        WellFormed(heap, x)
        => LET c == Copy(heap, x)
           IN  /\ c.out = "ok" /\ c.ret # None
               /\ ~Owned(c.h, c.ret)
               /\ Objects(c.h, c.ret) \cap Ids(heap) = {}
               /\ SubSeq(c.h, 1, Len(heap)) = heap

AssignNodes == {n \in Ids(heap) : heap[n].cls = "assign_t"}

\* C8: slot 0 of every assignment node holds an assignable node whose is_def
\* flag is true, after construction and after every later change of the slot
\* by slot assignment or by replace on the current target; placing a node that
\* is not assignable there is rejected.
C8_AssignTarget ==
    \A a \in AssignNodes :
        LET target == heap[a].operands[0]
        IN  /\ target # None
            /\ IsAssignable(heap[target].cls)
            /\ heap[target].is_def
            /\ \A v \in Refs :
                   (v = None \/ ~IsAssignable(heap[v].cls))
                   => /\ SetItem(heap, a, 0, v).out = "AssertionError"
                      /\ Replace(heap, target, v).out = "AssertionError"
                      /\ \A w \in Refs :
                             Construct(heap, "assign_t", <<v, w>>).out = "AssertionError"

\* a replace has put a new target into slot 0 of an assignment: the node it
\* returned is the former target
C8_Witness ==
    /\ last.op = "replace" /\ last.out = "ok" /\ last.ret # None
    /\ heap[last.ret].is_def
    /\ \E a \in AssignNodes :
           /\ heap[a].operands[0] \notin {None, last.ret}
           /\ heap[heap[a].operands[0]].parent = <<a, 0>>

(***************************************************************************)
(* The reference definition of structural equality: same class, equal      *)
(* identifying fields, operands pairwise equal in slot order.              *)
(***************************************************************************)
RECURSIVE RefEq(_, _, _)
RefEq(h, x, y) ==
    IF x = None \/ y = None THEN x = y
    ELSE /\ h[x].cls = h[y].cls
         /\ h[x].which = h[y].which
         /\ h[x].index = h[y].index
         /\ h[x].value = h[y].value
         /\ h[x].cls \in VarClasses => RefEq(h, h[x].where, h[y].where)
         /\ \A k \in DOMAIN h[x].operands : RefEq(h, h[x].operands[k], h[y].operands[k])

\* C9: x == y holds exactly when x and y are of the same kind, their
\* identifying fields are equal and their operands are pairwise structurally
\* equal in slot order.
C9_EqualityIsStructural ==
    \A x \in Ids(heap), y \in Ids(heap) :
        (WellFormed(heap, x) /\ WellFormed(heap, y))
        => ((Equals(heap, x, y) = "True") <=> RefEq(heap, x, y))

Range(seq) == {seq[i] : i \in DOMAIN seq}
Pos(seq, n) == CHOOSE i \in DOMAIN seq : seq[i] = n

\* seq lists the subtree of n once each, every operand's nodes before the
\* nodes of the next operand and before the node itself
PostOrder(h, n, seq) ==
    LET sub == [m \in Ids(h) |-> Subtree(h, m)]
    IN  /\ Range(seq) = sub[n]
        /\ \A i \in DOMAIN seq, j \in DOMAIN seq : seq[i] = seq[j] => i = j
        /\ \A m \in sub[n] : \A k \in DOMAIN h[m].operands :
               h[m].operands[k] # None
               => /\ \A u \in sub[h[m].operands[k]] : Pos(seq, u) < Pos(seq, m)
                  /\ \A j \in DOMAIN h[m].operands :
                         (k < j /\ h[m].operands[j] # None)
                         => \A u \in sub[h[m].operands[k]] :
                                \A v \in sub[h[m].operands[j]] :
                                    Pos(seq, u) < Pos(seq, v)

\* C10 as stated: for every structure reachable through construction, slot
\* assignment, replace and copy, iteroperands terminates and yields every
\* node of the subtree exactly once in depth-first left-to-right post-order,
\* skipping only empty slots.
C10_IterEveryReachable ==
    \A n \in Ids(heap) :
        LET r == IterOperandsOf(heap, n)
        IN  r.out = "ok" /\ PostOrder(heap, n, r.seq)

\* no node under n is its own descendant
Acyclic(h, n) ==
    \A m \in Subtree(h, n) :
        m \notin Closure(h, Operands(h, m), Len(h))

\* C10 as amended: for every node under which no node is its own descendant,
\* iteroperands terminates and yields every node of the subtree exactly once
\* in depth-first left-to-right post-order, skipping only empty slots; an
\* iteroperands call that ended did so with such a sequence.
C10_IterPostOrder ==
    /\ \A n \in Ids(heap) :
           Acyclic(heap, n)
           => LET r == IterOperandsOf(heap, n)
              IN  r.out = "ok" /\ PostOrder(heap, n, r.seq)
    /\ (last.op = "iteroperands" /\ last.out = "ok")
           => \E n \in Ids(heap) : Acyclic(heap, n) /\ PostOrder(heap, n, last.seq)

\* iteroperands has listed a node after its two operands, and another walk
\* passes an empty slot
C10_Witness ==
    /\ last.op = "iteroperands" /\ last.out = "ok" /\ Len(last.seq) >= 3
    /\ \E p \in Places(heap) : heap[p[1]].operands[p[2]] = None

(***************************************************************************)
(* Failed calls.                                                           *)
(***************************************************************************)
\* every object of h is in h2 with the same parent link, slots, is_def flag
\* and value
SameObjects(h, h2) == Len(h2) >= Len(h) /\ SubSeq(h2, 1, Len(h)) = h

\* the call recorded in l was refused: a construction, slot assignment or
\* replace by an assertion, a fold helper by its RuntimeError
ContractViolation(l) ==
    \/ l.op \in ExprClasses \cup {"__setitem__", "replace"} /\ l.out = "AssertionError"
    \/ l.op \in FoldNames /\ l.out = "RuntimeError"

\* C11: every contract violation aborts with the tree state unchanged: after a
\* construction, slot assignment or replace that is refused, or a fold helper
\* called with an operand that is not a literal, no parent link, slot content,
\* is_def flag or literal value of any node differs from before the call.
C11_ViolationLeavesState ==
    [][ContractViolation(last') => SameObjects(heap, heap')]_vars

(***************************************************************************)
(* Literal folding.                                                        *)
(***************************************************************************)
IsLiteral(h, n) == n # None /\ h[n].cls = "value_t"

\* the value the second operand is to have after the fold: c + v for add on
\* an additive and sub on a subtractive node, c - v for the other two
Folded(cls, name, c, v) ==
    IF (cls = "add_t" /\ name = "add") \/ (cls = "sub_t" /\ name = "sub")
    THEN c + v
    ELSE c - v

\* cls(value_t(1), value_t(2)) as node 4 and value_t(3) as node 3
FoldExample(cls) ==
    Construct(<<NewNode("value_t", 0, NoIndex, 1, None),
                NewNode("value_t", 0, NoIndex, 2, None),
                NewNode("value_t", 0, NoIndex, 3, None)>>, cls, <<1, 2>>).h

\* the fold ended normally, the second operand has the folded value and
\* nothing else of any object has changed
FoldPost(self, name, other) ==
    LET op2 == heap[self].operands[1]
    IN  /\ last'.out = "ok"
        /\ Len(heap') = Len(heap)
        /\ heap'[op2].value =
               Folded(heap[self].cls, name, heap[op2].value, heap[other].value)
        /\ heap'[op2] = [heap[op2] EXCEPT !.value = heap'[op2].value]
        /\ \A n \in Ids(heap) \ {op2} : heap'[n] = heap[n]

\* C12 as stated: for an additive node whose second operand is a literal of
\* value c and any literal v, fold-add sets that value to c + v and fold-sub to
\* c - v, for a subtractive node the signs are opposite; only that literal's
\* value changes, and the argument literal v is unchanged.
C12_FoldAnyLiteral ==
    [][last'.op \in FoldNames =>
           \A self \in Folders, other \in Ids(heap) :
               (/\ IsLiteral(heap, heap[self].operands[1])
                /\ IsLiteral(heap, other)
                /\ DoFold(self, last'.op, other))
               => /\ FoldPost(self, last'.op, other)
                  /\ heap'[other].value = heap[other].value]_vars

\* C12 as amended: the second operand receives c + v or c - v as stated and
\* no other object changes, so the argument literal is unchanged when it is
\* another object than the second operand; add_t(1, 2) fold-add 3 gives 5,
\* sub_t(1, 2) fold-add 3 gives -1.
C12_Fold ==
    /\ Fold(FoldExample("add_t"), 4, "add", 3).h[2].value = 5
    /\ Fold(FoldExample("sub_t"), 4, "add", 3).h[2].value = -1
    /\ [][last'.op \in FoldNames =>
              \A self \in Folders, other \in Ids(heap) :
                  (/\ IsLiteral(heap, heap[self].operands[1])
                   /\ IsLiteral(heap, other)
                   /\ DoFold(self, last'.op, other))
                  => FoldPost(self, last'.op, other)]_vars

\* fold-add of the literal 3 into an additive node has left 5 in its second
\* operand
C12_Witness ==
    /\ last.op = "add" /\ last.out = "ok"
    /\ \E self \in Folders, other \in Ids(heap) :
           /\ heap[self].cls = "add_t"
           /\ IsLiteral(heap, heap[self].operands[1])
           /\ heap[heap[self].operands[1]].value = 5
           /\ IsLiteral(heap, other) /\ heap[other].value = 3
           /\ other # heap[self].operands[1]

(***************************************************************************)
(* The parent relation.                                                    *)
(***************************************************************************)
\* n and the nodes reached from it by following at most i parent links
RECURSIVE Chain(_, _, _)
Chain(h, n, i) ==
    IF i = 0 \/ ~Owned(h, n) THEN {n} ELSE {n} \cup Chain(h, Owner(h, n), i - 1)

Ancestors(h, n) == IF Owned(h, n) THEN Chain(h, Owner(h, n), Len(h)) ELSE {}

\* no node is its own ancestor: the parent links from every node end at a
\* node without parent
ParentForest(h) == \A n \in Ids(h) : n \notin Ancestors(h, n)

\* the parent-less node at the end of the parent links from n
Root(h, n) == CHOOSE m \in Chain(h, n, Len(h)) : ~Owned(h, m)

\* C13 as stated: after any sequence of constructions, slot assignments and
\* replace calls the parent relation is a forest: no node is its own ancestor.
C13_ParentForest == ParentForest(heap)

\* the step puts the root of a tree into a slot of a node of that tree, by
\* slot assignment or as the replacement of an owned node
AttachesRoot ==
    \/ \E self \in Composites : \E key \in Slots(heap[self].cls) :
           Assign(self, key, Root(heap, self))
    \/ \E self \in Ids(heap) : Owned(heap, self) /\ DoReplace(self, Root(heap, self))

\* C13 as amended: a call keeps the parent relation a forest unless it puts
\* the parent-less root of a tree into a slot of a node of that same tree
\* (the node itself when it has no parent); such a call is not refused.
C13_ForestUnlessRootAttached ==
    [][ParentForest(heap) => (ParentForest(heap') \/ AttachesRoot)]_vars

\* a slot assignment has put a node under an owned node: three nodes on one
\* chain of parent links, which ends at a root
C13_Witness ==
    /\ last.op = "__setitem__" /\ last.out = "ok"
    /\ ParentForest(heap)
    /\ \E n \in Ids(heap) :
           /\ Owned(heap, n) /\ Owned(heap, Owner(heap, n))
           /\ Holds(heap, Owner(heap, n), Slot(heap, n), n)
           /\ Cardinality(Chain(heap, n, Len(heap))) = 3

====
